---------------------------- MODULE Spec2Model ----------------------------
(***************************************************************************)
(* A model of combine_mp3.py: the group detector (find_mp3_groups), the    *)
(* sequence sorter (sort_mp3_files), the concatenator (concatenate_mp3s),  *)
(* the per-directory pipeline (process_directory) and the walker (main).   *)
(*                                                                         *)
(* File names and paths are sequences of one-character strings, so that    *)
(* the regular expressions, os.path.join, os.path.basename, str.lower and  *)
(* the manifest escaping are computed character by character.              *)
(***************************************************************************)
EXTENDS Integers, Sequences, FiniteSets, TLC

(***************************************************************************)
(* Bounds of the model.                                                    *)
(***************************************************************************)
\* Largest number of entries a directory holds in the initial state.
MaxFiles == 3
\* Longest listing handed to the detector and the sorter on their own.
MaxListing == 4
\* Number of consecutive runs of the program over the same tree.
MaxRuns == 2

(***************************************************************************)
(* Characters and strings.                                                 *)
(***************************************************************************)
Digits == {"0", "1", "2", "3", "4", "5", "6", "7", "8", "9"}

\* The characters \s matches, among those the model's names use.
Spaces == {" ", "\t"}

\* str.lower() and re.IGNORECASE, on the letters the model's names use.
Lower(c) ==
    CASE c = "M" -> "m"
      [] c = "P" -> "p"
      [] c = "T" -> "t"
      [] c = "A" -> "a"
      [] c = "B" -> "b"
      [] OTHER -> c

LowerStr(s) == [i \in 1..Len(s) |-> Lower(s[i])]

DotMp3 == <<".", "m", "p", "3">>

\* file.lower().endswith(".mp3")
EndsWithMp3(file) ==
    /\ Len(file) >= Len(DotMp3)
    /\ SubSeq(LowerStr(file), Len(file) - 3, Len(file)) = DotMp3

\* The value of one decimal digit.
DigitValue(c) ==
    CASE c = "0" -> 0 [] c = "1" -> 1 [] c = "2" -> 2 [] c = "3" -> 3
      [] c = "4" -> 4 [] c = "5" -> 5 [] c = "6" -> 6 [] c = "7" -> 7
      [] c = "8" -> 8 [] c = "9" -> 9

\* int(match.group(1)): base 10, leading zeros allowed.
RECURSIVE ParseInt(_)
ParseInt(ds) ==
    IF ds = << >> THEN 0
    ELSE 10 * ParseInt(SubSeq(ds, 1, Len(ds) - 1)) + DigitValue(ds[Len(ds)])

AllIn(s, lo, hi, S) == \A k \in lo..hi : s[k] \in S

\* os.path.join(directory, file) for a relative file name.
PathJoin(directory, file) == directory \o <<"/">> \o file

\* os.path.basename(path): what follows the last "/".
Basename(path) ==
    LET slashes == {i \in 1..Len(path) : path[i] = "/"}
        last == IF slashes = {} THEN 0
                ELSE CHOOSE i \in slashes : \A j \in slashes : j <= i
    IN  SubSeq(path, last + 1, Len(path))

(***************************************************************************)
(* The two patterns of find_mp3_groups and the extraction of               *)
(* sort_mp3_files.                                                         *)
(***************************************************************************)
\* The tail "\s*(\d+)\.mp3$" from position k on: the position of the first
\* digit of the group, or 0 when the tail does not match.
NumberTail(s, k) ==
    LET n == Len(s)
        starts == {j \in k..(n - 4) :
                      /\ AllIn(s, k, j - 1, Spaces)
                      /\ AllIn(s, j, n - 4, Digits)
                      /\ SubSeq(LowerStr(s), n - 3, n) = DotMp3}
    IN  IF starts = {} THEN 0 ELSE CHOOSE j \in starts : TRUE

\* pattern_end = ^.+?\s*-\s*(\d+)\.mp3$ with re.IGNORECASE, under match().
pattern_end(file) ==
    \E i \in 2..Len(file) : file[i] = "-" /\ NumberTail(file, i + 1) # 0

\* pattern_begin = ^(\d+)[\s\.]*[-\s]+.+?\.mp3$ with re.IGNORECASE, under
\* match(): digits 1..a, [\s\.]* on a+1..b, [-\s]+ on b+1..c, .+? on
\* c+1..n-4, then the extension.
pattern_begin(file) ==
    LET n == Len(file)
    IN  \E a \in 1..n : \E b \in a..n : \E c \in (b + 1)..n :
            /\ AllIn(file, 1, a, Digits)
            /\ AllIn(file, a + 1, b, Spaces \cup {"."})
            /\ AllIn(file, b + 1, c, Spaces \cup {"-"})
            /\ c + 1 <= n - 4
            /\ SubSeq(LowerStr(file), n - 3, n) = DotMp3

\* The test of line 47.
IsNumberedMp3(file) == pattern_end(file) \/ pattern_begin(file)

\* extract_number: the trailing form first (re.search, leftmost match), then
\* the leading form, else 0.
extract_number(file_path) ==
    LET filename == Basename(file_path)
        n == Len(filename)
        dashes == {i \in 1..n : filename[i] = "-" /\ NumberTail(filename, i + 1) # 0}
        lead == {a \in 1..n :
                    /\ AllIn(filename, 1, a, Digits)
                    /\ \E b \in a..(n - 1) :
                          /\ AllIn(filename, a + 1, b, Spaces \cup {"."})
                          /\ filename[b + 1] \in Spaces \cup {"-"}}
    IN  IF dashes # {}
        THEN LET i == CHOOSE d \in dashes : \A e \in dashes : d <= e
             IN  ParseInt(SubSeq(filename, NumberTail(filename, i + 1), n - 4))
        ELSE IF lead # {}
        THEN LET a == CHOOSE x \in lead : \A y \in lead : y <= x
             IN  ParseInt(SubSeq(filename, 1, a))
        ELSE 0

(***************************************************************************)
(* The file names and directories the model draws its inputs from.         *)
(***************************************************************************)
\* "a - 2.mp3": trailing form, number 2.
NameEnd2 == <<"a", " ", "-", " ", "2", ".", "m", "p", "3">>

\* "a - 10.mp3": trailing form, number 10 (sorts before "a - 2.mp3" as text).
NameEnd10 == <<"a", " ", "-", " ", "1", "0", ".", "m", "p", "3">>

\* "1 - b.MP3": leading form with a dash, upper-case extension, number 1.
NameBegin1 == <<"1", " ", "-", " ", "b", ".", "M", "P", "3">>

\* "02. b.mp3": leading form with a period, number 2 (ties with "a - 2.mp3").
NameBeginDot2 == <<"0", "2", ".", " ", "b", ".", "m", "p", "3">>

\* "1-2.mp3": both forms apply; the trailing form wins, number 2.
NameBoth == <<"1", "-", "2", ".", "m", "p", "3">>

\* "a.mp3": an .mp3 file without a number.
NamePlain == <<"a", ".", "m", "p", "3">>

\* "a2.mp3": a number without a separator.
NameNoDash == <<"a", "2", ".", "m", "p", "3">>

\* "a - 1.txt": a numbered file with another extension.
NameTxt == <<"a", " ", "-", " ", "1", ".", "t", "x", "t">>

\* The target directory, "/r".
RootDir == <<"/", "r">>

\* "/r/T": a directory whose output "T.mp3" carries no number.
DirT == PathJoin(RootDir, <<"T">>)

\* "/r/T/b - 1": a nested directory whose output "b - 1.mp3" has the
\* trailing form itself.
DirB == PathJoin(DirT, <<"b", " ", "-", " ", "1">>)

\* f"{base_name}.mp3" of line 160.
OutputFilename(base_name) == base_name \o DotMp3

(***************************************************************************)
(* find_mp3_groups.  A dict is a function on its set of keys.              *)
(***************************************************************************)
EmptyDict == [k \in {} |-> << >>]

\* The loop of lines 44-49 over the os.listdir result.
RECURSIVE CollectNumbered(_, _)
CollectNumbered(directory, listing) ==
    IF listing = << >> THEN << >>
    ELSE LET file == Head(listing)
             rest == CollectNumbered(directory, Tail(listing))
         IN  IF EndsWithMp3(file) /\ IsNumberedMp3(file)
             THEN <<PathJoin(directory, file)>> \o rest
             ELSE rest

\* A faulty variant of GroupThreshold: singletons are kept.
GroupThresholdOffByOne(mp3_files) == Len(mp3_files) >= 1

\* The threshold of line 52.
GroupThreshold(mp3_files) == Len(mp3_files) > 1

\* A faulty variant of GroupKey: the whole directory path is the key.
GroupKeyFullPath(directory) == directory

\* base_name of line 53.
GroupKey(directory) == Basename(directory)

find_mp3_groups(directory, listing) ==
    LET mp3_files == CollectNumbered(directory, listing)
    IN  IF GroupThreshold(mp3_files)
        THEN [k \in {GroupKey(directory)} |-> mp3_files]
        ELSE EmptyDict

(***************************************************************************)
(* sort_mp3_files: sorted(file_list, key=extract_number), a stable sort.   *)
(***************************************************************************)
\* A faulty variant of InsertPos: x goes before the elements with an equal key.
InsertPosBeforeEqual(sorted, x) ==
    Cardinality({i \in 1..Len(sorted) :
                    extract_number(sorted[i]) < extract_number(x)})

\* Where x goes in an already sorted list: after every element whose key is
\* not greater (what keeps equal keys in input order).
InsertPos(sorted, x) ==
    Cardinality({i \in 1..Len(sorted) :
                    extract_number(sorted[i]) <= extract_number(x)})

RECURSIVE SortedByKey(_)
SortedByKey(file_list) ==
    IF file_list = << >> THEN << >>
    ELSE LET front == SortedByKey(SubSeq(file_list, 1, Len(file_list) - 1))
             x == file_list[Len(file_list)]
             p == InsertPos(front, x)
         IN  SubSeq(front, 1, p) \o <<x>> \o SubSeq(front, p + 1, Len(front))

\* A faulty variant of sort_mp3_files: the list is returned in the order given.
SortSkipped(file_list) == file_list

sort_mp3_files(file_list) == SortedByKey(file_list)

(***************************************************************************)
(* concatenate_mp3s: the manifest.                                         *)
(***************************************************************************)
\* file_path.replace("'", "'\\''") of line 103.
RECURSIVE EscapeQuotes(_)
EscapeQuotes(file_path) ==
    IF file_path = << >> THEN << >>
    ELSE (IF Head(file_path) = "'" THEN <<"'", "\\", "'", "'">>
          ELSE <<Head(file_path)>>) \o EscapeQuotes(Tail(file_path))

\* One line of the manifest, line 104.
ManifestLine(file_path) ==
    <<"f", "i", "l", "e", " ", "'">> \o EscapeQuotes(file_path) \o <<"'", "\n">>

\* The lines written by the loop of lines 101-104.
ManifestLines(file_list) ==
    [i \in 1..Len(file_list) |-> ManifestLine(file_list[i])]

\* A faulty variant of ConcatResult: success whatever the exit status.
ConcatResultAlwaysTrue(returncode) == TRUE

\* The result of lines 127-131.
ConcatResult(returncode) == returncode = 0

(***************************************************************************)
(* The directory tree and the file system.                                 *)
(***************************************************************************)
\* The directories os.walk(target_dir) yields, top-down.
WalkOrder == <<RootDir, DirT, DirB>>

Dirs == {WalkOrder[i] : i \in 1..Len(WalkOrder)}

\* The names a descendant directory may hold at the start: numbered files,
\* an unnumbered .mp3, the directory's own output, and a file that is no
\* .mp3 (in "/r/T") or a file of the leading form (in "/r/T/b - 1").
DirPool(d) ==
    {NameEnd2, NameEnd10, NamePlain, OutputFilename(Basename(d)),
     IF d = DirT THEN NameTxt ELSE NameBegin1}

\* What the target directory itself holds: a group of its own, which the
\* walk must leave alone.
RootContents == {{NameEnd2, NameEnd10}}

\* A directory's content: each name it holds, with what the file holds.
Contents(names) == [n \in names |-> "original"]

\* Every order os.listdir may return the names in.
RECURSIVE Orders(_)
Orders(names) ==
    IF names = {} THEN {<< >>}
    ELSE UNION {{<<n>> \o rest : rest \in Orders(names \ {n})} : n \in names}

VARIABLES
    pc,            \* where the program is
    run,           \* which run of the program this is
    arg,           \* what the directory argument names
    tool,          \* what the ffmpeg -version check found
    fs,            \* the tree: directory -> (name -> content)
    fs0,           \* the tree as it was when this run started
    walk,          \* directories os.walk has still to yield
    cur,           \* the directory process_directory was called with
    sorted_files,  \* the concatenator's file_list
    output_path,   \* the concatenator's output_path
    manifest,      \* the lines written to the manifest
    temp_file,     \* the manifest of the current call: none, exists, deleted
    returncode,    \* the exit status of the merge process, -1 before it ran
    raised,        \* whether the current call caught an exception
    result,        \* what concatenate_mp3s returned
    exit_status,   \* the exit status of the program, -1 while it runs
    ending,        \* how the program ended
    tool_checks,   \* ffmpeg -version runs of this run
    processed,     \* directories passed to process_directory in this run
    skipped,       \* directories whose group was skipped in this run
    merges,        \* directories the concatenator was invoked for in this run
    failed,        \* directories whose merge was reported failed in this run
    left_behind,   \* directories whose manifest this run left in the temporary directory
    call,          \* detector/sorter on their own: the function applied
    arg_directory, \* its directory
    arg_listing,   \* its listing
    ret_groups,    \* what find_mp3_groups returned
    ret_sorted     \* what sort_mp3_files returned

unitVars == <<call, arg_directory, arg_listing, ret_groups, ret_sorted>>

envVars == <<fs, fs0>>

callVars == <<sorted_files, output_path, manifest, temp_file, returncode, raised, result>>

logVars == <<tool_checks, processed, skipped, merges, failed, left_behind>>

mainVars == <<pc, run, arg, tool, walk, cur, exit_status, ending>>

vars == <<mainVars, envVars, callVars, logVars, unitVars>>

NoDir == << >>

\* os.path.exists(path), for a path inside the tree.
PathExists(path) ==
    \/ path \in Dirs
    \/ \E d \in Dirs : \E n \in DOMAIN fs[d] : PathJoin(d, n) = path

\* A faulty variant of DestinationExists: the check of line 164 is lost.
DestinationNeverExists(path) == FALSE

\* The check of line 164.
DestinationExists(path) == PathExists(path)

\* The tree after the file at PathJoin(d, name) was written.
WriteFile(d, name, content) ==
    [fs EXCEPT ![d] = [n \in DOMAIN fs[d] \cup {name} |->
                          IF n = name THEN content ELSE fs[d][n]]]

\* The directory and the name of a path directly inside a directory of the tree.
DirOf(path) == CHOOSE d \in Dirs : PathJoin(d, Basename(path)) = path

(***************************************************************************)
(* The initial states: any tree within the bounds, the program about to    *)
(* start its first run.                                                    *)
(***************************************************************************)
Trees ==
    {t \in [Dirs -> UNION {{Contents(ns) : ns \in SUBSET DirPool(d)} : d \in Dirs}
                     \cup {Contents(ns) : ns \in RootContents}] :
        /\ DOMAIN t[RootDir] \in RootContents
        /\ \A d \in Dirs \ {RootDir} :
              /\ DOMAIN t[d] \subseteq DirPool(d)
              /\ Cardinality(DOMAIN t[d]) <= MaxFiles}

UnitsOff ==
    /\ call = "off"
    /\ arg_directory = NoDir
    /\ arg_listing = << >>
    /\ ret_groups = EmptyDict
    /\ ret_sorted = << >>

CallIdle ==
    /\ sorted_files = << >>
    /\ output_path = << >>
    /\ manifest = << >>
    /\ temp_file = "none"
    /\ returncode = -1
    /\ raised = FALSE
    /\ result = FALSE

LogEmpty ==
    /\ tool_checks = 0
    /\ processed = {}
    /\ skipped = {}
    /\ merges = {}
    /\ failed = {}
    /\ left_behind = {}

MainAtStart ==
    /\ pc = "main_args"
    /\ arg = "unknown"
    /\ tool = "unknown"
    /\ walk = << >>
    /\ cur = NoDir
    /\ exit_status = -1
    /\ ending = "running"

Init ==
    /\ fs \in Trees
    /\ fs0 = fs
    /\ run = 1
    /\ MainAtStart
    /\ CallIdle
    /\ LogEmpty
    /\ UnitsOff

(***************************************************************************)
(* main: the start-up checks.                                              *)
(***************************************************************************)
\* sys.exit(1) of lines 217, 224, 228 and 236.
ExitStartup ==
    /\ pc' = "exit"
    /\ exit_status' = 1
    /\ ending' = "startup"

\* Lines 205-217: the directory argument is there or not.
MainCheckArgument ==
    /\ pc = "main_args"
    /\ \E given \in {"missing", "nonexistent", "not_a_directory", "directory"} :
          /\ arg' = given
          /\ IF given = "missing"
             THEN ExitStartup
             ELSE pc' = "main_exists" /\ UNCHANGED <<exit_status, ending>>
    /\ UNCHANGED <<run, tool, walk, cur, envVars, callVars, logVars, unitVars>>

\* Lines 220-224: os.path.exists(target_dir).
MainCheckExists ==
    /\ pc = "main_exists"
    /\ IF arg = "nonexistent"
       THEN ExitStartup
       ELSE pc' = "main_isdir" /\ UNCHANGED <<exit_status, ending>>
    /\ UNCHANGED <<run, arg, tool, walk, cur, envVars, callVars, logVars, unitVars>>

\* Lines 226-228: os.path.isdir(target_dir).
MainCheckIsDir ==
    /\ pc = "main_isdir"
    /\ IF arg = "not_a_directory"
       THEN ExitStartup
       ELSE pc' = "main_ffmpeg" /\ UNCHANGED <<exit_status, ending>>
    /\ UNCHANGED <<run, arg, tool, walk, cur, envVars, callVars, logVars, unitVars>>

\* A faulty variant of ToolUsable: the outcome of the check is ignored.
ToolCheckIgnored(found) == TRUE

\* Lines 231-233: the check passes unless ffmpeg -version raised
\* FileNotFoundError or CalledProcessError.
ToolUsable(found) == found = "available"

\* Lines 230-241: ffmpeg -version, then os.walk(target_dir) begins.
MainCheckFfmpeg ==
    /\ pc = "main_ffmpeg"
    /\ \E found \in {"available", "not_found", "bad_exit"} :
          /\ tool' = found
          /\ tool_checks' = tool_checks + 1
          /\ IF ToolUsable(found)
             THEN /\ pc' = "walk"
                  /\ walk' = WalkOrder
                  /\ UNCHANGED <<exit_status, ending>>
             ELSE /\ ExitStartup
                  /\ UNCHANGED walk
    /\ UNCHANGED <<run, arg, cur, envVars, callVars, processed, skipped, merges,
                   failed, left_behind, unitVars>>

(***************************************************************************)
(* main: the walk.                                                         *)
(***************************************************************************)
\* Line 247: any(file.lower().endswith(".mp3") for file in files).
HasMp3(d) == \E n \in DOMAIN fs[d] : EndsWithMp3(n)

\* A faulty variant of IsCandidate: the target directory is not skipped.
IsCandidateWithRoot(d) == HasMp3(d)

\* Lines 243-247: the directories handed to process_directory.
IsCandidate(d) == d # RootDir /\ HasMp3(d)

\* Lines 241-250: os.walk yields the next directory, or the loop ends.
MainWalk ==
    /\ pc = "walk"
    /\ IF walk = << >>
       THEN /\ pc' = "exit"
            /\ exit_status' = 0
            /\ ending' = "complete"
            /\ UNCHANGED <<walk, cur, processed>>
       ELSE /\ walk' = Tail(walk)
            /\ UNCHANGED <<exit_status, ending>>
            /\ IF IsCandidate(Head(walk))
               THEN /\ pc' = "process"
                    /\ cur' = Head(walk)
                    /\ processed' = processed \cup {Head(walk)}
               ELSE UNCHANGED <<pc, cur, processed>>
    /\ UNCHANGED <<run, arg, tool, envVars, callVars, tool_checks, skipped, merges,
                   failed, left_behind, unitVars>>

(***************************************************************************)
(* process_directory, up to the call of the concatenator.                  *)
(***************************************************************************)
\* Line 147 with os.listdir raising OSError: nothing catches it, the
\* interpreter prints the traceback and exits with status 1.
ProcessListingFails ==
    /\ pc = "process"
    /\ pc' = "exit"
    /\ exit_status' = 1
    /\ ending' = "traceback"
    /\ UNCHANGED <<run, arg, tool, walk, cur, envVars, callVars, logVars, unitVars>>

\* Lines 145-170: detect, sort, derive the output path, skip or go on.
ProcessDirectory ==
    /\ pc = "process"
    /\ \E listing \in Orders(DOMAIN fs[cur]) :
          LET mp3_groups == find_mp3_groups(cur, listing)
          IN  IF DOMAIN mp3_groups = {}
              THEN /\ pc' = "walk"
                   /\ UNCHANGED <<sorted_files, output_path, skipped, merges>>
              ELSE LET base_name == CHOOSE k \in DOMAIN mp3_groups : TRUE
                       path == PathJoin(cur, OutputFilename(base_name))
                   IN  IF DestinationExists(path)
                       THEN /\ pc' = "walk"
                            /\ skipped' = skipped \cup {cur}
                            /\ UNCHANGED <<sorted_files, output_path, merges>>
                       ELSE /\ pc' = "concat_manifest"
                            /\ sorted_files' = sort_mp3_files(mp3_groups[base_name])
                            /\ output_path' = path
                            /\ merges' = merges \cup {cur}
                            /\ UNCHANGED skipped
    /\ UNCHANGED <<run, arg, tool, walk, cur, exit_status, ending, envVars, manifest,
                   temp_file, returncode, raised, result, tool_checks, processed,
                   failed, left_behind, unitVars>>

(***************************************************************************)
(* concatenate_mp3s.  The handler of lines 133-135 turns every exception   *)
(* of lines 98-131 into the result False.                                  *)
(***************************************************************************)
\* Lines 133-135, reached from wherever the exception was raised.
CaughtException ==
    /\ raised' = TRUE
    /\ result' = FALSE
    /\ pc' = "concat_return"

\* Lines 98-100 raise: no temporary file could be created.
ConcatCreateFails ==
    /\ pc = "concat_manifest"
    /\ CaughtException
    /\ UNCHANGED <<run, arg, tool, walk, cur, exit_status, ending, envVars,
                   sorted_files, output_path, manifest, temp_file, returncode,
                   logVars, unitVars>>

\* Lines 101-104 raise part-way (the disk is full, a name cannot be
\* encoded): the file was created with delete=False and stays.
ConcatWriteFails ==
    /\ pc = "concat_manifest"
    /\ sorted_files # << >>
    /\ \E written \in 0..(Len(sorted_files) - 1) :
          manifest' = SubSeq(ManifestLines(sorted_files), 1, written)
    /\ temp_file' = "exists"
    /\ CaughtException
    /\ UNCHANGED <<run, arg, tool, walk, cur, exit_status, ending, envVars,
                   sorted_files, output_path, returncode, logVars, unitVars>>

\* Lines 98-105: the manifest is written and closed.
ConcatWriteManifest ==
    /\ pc = "concat_manifest"
    /\ manifest' = ManifestLines(sorted_files)
    /\ temp_file' = "exists"
    /\ pc' = "concat_run"
    /\ UNCHANGED <<run, arg, tool, walk, cur, exit_status, ending, envVars,
                   sorted_files, output_path, returncode, raised, result,
                   logVars, unitVars>>

\* Line 122 raises: ffmpeg cannot be launched (gone from PATH since the
\* start-up check, not executable, no process can be created).
ConcatLaunchFails ==
    /\ pc = "concat_run"
    /\ CaughtException
    /\ UNCHANGED <<run, arg, tool, walk, cur, exit_status, ending, envVars,
                   sorted_files, output_path, manifest, temp_file, returncode,
                   logVars, unitVars>>

\* Line 122: ffmpeg runs to its end.  Exit status 0 leaves the merged
\* destination; a non-zero status leaves nothing or a truncated destination.
ConcatRunFfmpeg ==
    /\ pc = "concat_run"
    /\ \E outcome \in {"merged", "nothing", "truncated"} :
          /\ returncode' = IF outcome = "merged" THEN 0 ELSE 1
          /\ fs' = IF outcome = "nothing" THEN fs
                   ELSE WriteFile(DirOf(output_path), Basename(output_path), outcome)
    /\ pc' = "concat_unlink"
    /\ UNCHANGED <<run, arg, tool, walk, cur, exit_status, ending, fs0,
                   sorted_files, output_path, manifest, temp_file, raised, result,
                   logVars, unitVars>>

\* Lines 125-131: the manifest is removed and the exit status becomes the result.
ConcatUnlinkAndReturn ==
    /\ pc = "concat_unlink"
    /\ temp_file' = "deleted"
    /\ result' = ConcatResult(returncode)
    /\ pc' = "concat_return"
    /\ UNCHANGED <<run, arg, tool, walk, cur, exit_status, ending, envVars,
                   sorted_files, output_path, manifest, returncode, raised,
                   logVars, unitVars>>

\* Lines 173-176: process_directory reports the result and returns to the walk.
ProcessReport ==
    /\ pc = "concat_return"
    /\ failed' = IF result THEN failed ELSE failed \cup {cur}
    /\ left_behind' = IF temp_file = "exists" THEN left_behind \cup {cur}
                      ELSE left_behind
    /\ pc' = "walk"
    /\ sorted_files' = << >>
    /\ output_path' = << >>
    /\ manifest' = << >>
    /\ temp_file' = "none"
    /\ returncode' = -1
    /\ raised' = FALSE
    /\ result' = FALSE
    /\ UNCHANGED <<run, arg, tool, walk, cur, exit_status, ending, envVars,
                   tool_checks, processed, skipped, merges, unitVars>>

(***************************************************************************)
(* The program is run again over the tree a completed run left.  (A run    *)
(* that stopped at start-up left the tree as it found it, and a run that   *)
(* ended by a traceback left a tree that a completed run whose remaining   *)
(* merges failed without output leaves too.)                               *)
(***************************************************************************)
RunAgain ==
    /\ pc = "exit"
    /\ ending = "complete"
    /\ run < MaxRuns
    /\ run' = run + 1
    /\ fs0' = fs
    /\ pc' = "main_args"
    /\ arg' = "unknown"
    /\ tool' = "unknown"
    /\ walk' = << >>
    /\ cur' = NoDir
    /\ exit_status' = -1
    /\ ending' = "running"
    /\ tool_checks' = 0
    /\ processed' = {}
    /\ skipped' = {}
    /\ merges' = {}
    /\ failed' = {}
    /\ left_behind' = {}
    /\ UNCHANGED <<fs, callVars, unitVars>>

Next ==
    \/ MainCheckArgument
    \/ MainCheckExists
    \/ MainCheckIsDir
    \/ MainCheckFfmpeg
    \/ MainWalk
    \/ ProcessListingFails
    \/ ProcessDirectory
    \/ ConcatCreateFails
    \/ ConcatWriteFails
    \/ ConcatWriteManifest
    \/ ConcatLaunchFails
    \/ ConcatRunFfmpeg
    \/ ConcatUnlinkAndReturn
    \/ ProcessReport
    \/ RunAgain

Spec == Init /\ [][Next]_vars

(***************************************************************************)
(* The detector and the sorter on their own: any directory of the tree,    *)
(* any listing of distinct names within the bound.                         *)
(***************************************************************************)
UnitPool ==
    {NameEnd2, NameEnd10, NameBegin1, NameBeginDot2, NameBoth, NamePlain,
     NameNoDash, NameTxt}

Listings ==
    UNION {{s \in [1..n -> UnitPool] : \A i, j \in 1..n : i # j => s[i] # s[j]} :
              n \in 0..MaxListing}

\* The paths of a listing's entries, as find_mp3_groups builds them (line 48).
PathsOf(directory, listing) ==
    [i \in 1..Len(listing) |-> PathJoin(directory, listing[i])]

InitUnits ==
    /\ call = "none"
    /\ arg_directory \in Dirs \ {RootDir}
    /\ arg_listing \in Listings
    /\ ret_groups = EmptyDict
    /\ ret_sorted = << >>
    /\ fs = [d \in Dirs |-> Contents({})]
    /\ fs0 = fs
    /\ run = 1
    /\ pc = "off"
    /\ arg = "unknown"
    /\ tool = "unknown"
    /\ walk = << >>
    /\ cur = NoDir
    /\ exit_status = -1
    /\ ending = "running"
    /\ CallIdle
    /\ LogEmpty

\* find_mp3_groups(arg_directory) where os.listdir returns arg_listing.
CallFindGroups ==
    /\ call = "none"
    /\ call' = "find_mp3_groups"
    /\ ret_groups' = find_mp3_groups(arg_directory, arg_listing)
    /\ UNCHANGED <<arg_directory, arg_listing, ret_sorted, mainVars, envVars,
                   callVars, logVars>>

\* sort_mp3_files on the paths of the listing, in the listing's order.
CallSort ==
    /\ call = "none"
    /\ call' = "sort_mp3_files"
    /\ ret_sorted' = sort_mp3_files(PathsOf(arg_directory, arg_listing))
    /\ UNCHANGED <<arg_directory, arg_listing, ret_groups, mainVars, envVars,
                   callVars, logVars>>

NextUnits == CallFindGroups \/ CallSort

SpecUnits == InitUnits /\ [][NextUnits]_vars

(***************************************************************************)
(* What the properties below speak of.                                     *)
(***************************************************************************)
\* The names of a directory content that are numbered .mp3 files.
NumberedNames(names) == {n \in names : EndsWithMp3(n) /\ IsNumberedMp3(n)}

\* The own name of each directory of the tree, written out.
OwnName(d) ==
    CASE d = RootDir -> <<"r">>
      [] d = DirT -> <<"T">>
      [] d = DirB -> <<"b", " ", "-", " ", "1">>

\* The destination file name of a directory's group.
DestName(d) == OwnName(d) \o <<".", "m", "p", "3">>

\* A directory of tree t holds a group, and whether its destination is there.
HoldsGroup(t, d) == Cardinality(NumberedNames(DOMAIN t[d])) > 1

HoldsDestination(t, d) == DestName(d) \in DOMAIN t[d]

\* The descendant directories of tree t that directly hold an .mp3 entry.
CandidatesOf(t) ==
    {d \in Dirs \ {RootDir} : \E n \in DOMAIN t[d] : EndsWithMp3(n)}

\* Every file of tree t, as a path.
FilesOf(t) == UNION {{PathJoin(d, n) : n \in DOMAIN t[d]} : d \in Dirs}

InConcatenator == pc \in {"concat_manifest", "concat_run", "concat_unlink", "concat_return"}

(***************************************************************************)
(* C1.  When a call of concatenate_mp3s has returned, the manifest it      *)
(* created no longer exists, whatever the exit path.  (Violated: line 125   *)
(* is skipped when line 104 or line 122 raises.)                           *)
(***************************************************************************)
C1_ManifestGoneOnReturn == pc = "concat_return" => temp_file # "exists"

(***************************************************************************)
(* C2.  When process_directory handles a directory that holds a group and  *)
(* whose destination already exists, that step does not enter the          *)
(* concatenator: no manifest is written, no process is run, and the tree   *)
(* (the destination with it) is left as it was.                            *)
(***************************************************************************)
C2_ExistingDestinationSkipsMerge ==
    [][(/\ pc = "process"
        /\ HoldsGroup(fs, cur)
        /\ HoldsDestination(fs, cur))
       => (/\ ~InConcatenator'
           /\ merges' = merges
           /\ manifest' = << >>
           /\ temp_file' = "none"
           /\ returncode' = -1
           /\ fs' = fs)]_vars

\* The group of "/r/T" was skipped in a completed run and "T.mp3" is the
\* file that was there before.
C2_Witness ==
    /\ pc = "exit"
    /\ ending = "complete"
    /\ run = 1
    /\ DirT \in skipped
    /\ HoldsGroup(fs0, DirT)
    /\ HoldsDestination(fs, DirT)
    /\ fs[DirT][DestName(DirT)] = "original"

(***************************************************************************)
(* C3, as stated.  When the program has run to completion twice, the files *)
(* of the tree after the second run are those left by the first run, and   *)
(* the second run performed no merge.  (Violated: a merge that failed in   *)
(* the first run without leaving a destination is attempted again.)        *)
(***************************************************************************)
C3_SecondRunIsNoOp ==
    (run = 2 /\ pc = "exit" /\ ending = "complete")
        => (FilesOf(fs) = FilesOf(fs0) /\ merges = {})

(***************************************************************************)
(* C3, amended.  A run after the first invokes the concatenator only for   *)
(* groups whose destination the earlier run did not leave; every file the  *)
(* earlier run left is kept as it is; and when the earlier run left a      *)
(* destination for every group of a candidate directory, the later run     *)
(* performs no merge and the files of the tree are the same.               *)
(***************************************************************************)
C3_SecondRunSkipsWhatExists ==
    run >= 2 =>
        /\ \A d \in merges : ~HoldsDestination(fs0, d)
        /\ \A d \in Dirs : \A n \in DOMAIN fs0[d] :
              n \in DOMAIN fs[d] /\ fs[d][n] = fs0[d][n]
        /\ (\A d \in CandidatesOf(fs0) : HoldsGroup(fs0, d) => HoldsDestination(fs0, d))
              => (merges = {} /\ FilesOf(fs) = FilesOf(fs0))

\* The second run completed, found the group of "/r/T" and skipped it,
\* because the first run had merged it.
C3_Witness ==
    /\ run = 2
    /\ pc = "exit"
    /\ ending = "complete"
    /\ DirT \in skipped
    /\ HoldsGroup(fs0, DirT)
    /\ fs0[DirT][DestName(DirT)] = "merged"
    /\ merges = {}
    /\ fs = fs0

(***************************************************************************)
(* C4.  A run in which a merge failed still ends in normal completion,     *)
(* with every candidate directory processed.  (Violated: after the failed  *)
(* merge, the listing of a later directory fails and the run aborts.)      *)
(***************************************************************************)
C4_MergeFailureNeverAborts ==
    (pc = "exit" /\ failed # {}) =>
        /\ ending = "complete"
        /\ exit_status = 0
        /\ CandidatesOf(fs0) \subseteq processed

(***************************************************************************)
(* C5.  A directory whose listing fails while it is processed does not end *)
(* the run: the program never ends by an uncaught exception.  (Violated:   *)
(* nothing catches the OSError of line 44.)                                *)
(***************************************************************************)
C5_UnreadableDirectoryIsNotFatal == ending # "traceback"

C7_NoSingletonGroup ==
    call = "find_mp3_groups" =>
        /\ \A k \in DOMAIN ret_groups : Len(ret_groups[k]) >= 2
        /\ Cardinality(NumberedNames({arg_listing[i] : i \in 1..Len(arg_listing)})) <= 1
              => DOMAIN ret_groups = {}

\* One numbered file among unnumbered .mp3 files and another file: no group.
C7_Witness ==
    /\ call = "find_mp3_groups"
    /\ arg_listing = <<NamePlain, NameEnd2, NameNoDash, NameTxt>>
    /\ ret_groups = EmptyDict

C9_StableNumericSort ==
    LET input == PathsOf(arg_directory, arg_listing)
        PosIn(x) == CHOOSE i \in 1..Len(input) : input[i] = x
    IN  call = "sort_mp3_files" =>
            /\ Len(ret_sorted) = Len(input)
            /\ {ret_sorted[i] : i \in 1..Len(ret_sorted)}
                  = {input[i] : i \in 1..Len(input)}
            /\ \A i, j \in 1..Len(ret_sorted) : i < j =>
                  /\ extract_number(ret_sorted[i]) <= extract_number(ret_sorted[j])
                  /\ extract_number(ret_sorted[i]) = extract_number(ret_sorted[j])
                        => PosIn(ret_sorted[i]) < PosIn(ret_sorted[j])

\* 10 sorts after 2, and the two files without a number stay in input order.
C9_Witness ==
    /\ call = "sort_mp3_files"
    /\ arg_listing = <<NameEnd10, NameNoDash, NameEnd2, NamePlain>>
    /\ ret_sorted = PathsOf(arg_directory, <<NameNoDash, NamePlain, NameEnd2, NameEnd10>>)

(***************************************************************************)
(* C10.  After a failed start-up check (no argument, a target that does    *)
(* not exist or is no directory, ffmpeg unavailable) the program goes      *)
(* nowhere but to exit status 1, and no directory was processed, the       *)
(* concatenator was not invoked and no file was created in that run; the   *)
(* availability check runs at most once in a run, and has run and passed   *)
(* before any directory is processed.                                      *)
(***************************************************************************)
C10_StartupFailureIsFatal ==
    /\ (\/ arg = "missing"
        \/ (arg = "nonexistent" /\ pc # "main_exists")
        \/ (arg = "not_a_directory" /\ pc \notin {"main_exists", "main_isdir"})
        \/ tool \in {"not_found", "bad_exit"})
       => (/\ pc = "exit"
           /\ exit_status = 1
           /\ ending = "startup")
    /\ (arg \in {"missing", "nonexistent", "not_a_directory"}
           \/ tool \in {"not_found", "bad_exit"})
       => (/\ processed = {}
           /\ merges = {}
           /\ left_behind = {}
           /\ temp_file = "none"
           /\ fs = fs0)
    /\ tool_checks <= 1
    /\ (processed # {} \/ pc \in {"walk", "process"} \/ InConcatenator)
          => (tool_checks = 1 /\ tool = "available")

\* ffmpeg is missing and the tree holds a group waiting to be merged: the
\* program has exited with status 1.
C10_Witness ==
    /\ pc = "exit"
    /\ tool = "not_found"
    /\ exit_status = 1
    /\ tool_checks = 1
    /\ HoldsGroup(fs, DirT)
    /\ ~HoldsDestination(fs, DirT)

(***************************************************************************)
(* C11.  The walk never hands the target directory itself to               *)
(* process_directory, even when it directly holds numbered .mp3 files; of  *)
(* the directories the walk has yielded so far it has handed over exactly  *)
(* the descendants that directly hold an entry whose name ends in ".mp3",  *)
(* whatever the case of the suffix.                                        *)
(***************************************************************************)
C11_WalkerPassesDescendantsWithMp3 ==
    /\ RootDir \notin processed
    /\ IF tool = "available"
       THEN processed = {d \in CandidatesOf(fs0) :
                            \A i \in 1..Len(walk) : walk[i] # d}
       ELSE processed = {}

\* A completed walk over a target directory that holds a group itself, with
\* "/r/T" holding no .mp3 entry and "/r/T/b - 1" holding only "1 - b.MP3":
\* only the latter was handed over.
C11_Witness ==
    /\ pc = "exit"
    /\ ending = "complete"
    /\ HoldsGroup(fs0, RootDir)
    /\ DOMAIN fs0[DirT] = {NameTxt}
    /\ DOMAIN fs0[DirB] = {NameBegin1}
    /\ processed = {DirB}

(***************************************************************************)
(* C12.  Whenever the concatenator has written its manifest for the        *)
(* external tool, the manifest has exactly one line per file of the group  *)
(* detected in the directory, each of the form file '<path>', and the      *)
(* lines are in non-decreasing order of the sequence number extracted from *)
(* the file names, whatever order the directory listing had.               *)
(***************************************************************************)
\* The manifest line expected for the entry named n of directory d.
ExpectedLine(d, n) ==
    <<"f", "i", "l", "e", " ", "'">> \o d \o <<"/">> \o n \o <<"'", "\n">>

\* The loop of lines 101-104 has run to its end.
ManifestComplete ==
    \/ pc \in {"concat_run", "concat_unlink"}
    \/ pc = "concat_return" /\ ~raised

C12_ManifestOneLinePerFileInNumberOrder ==
    ManifestComplete =>
        LET group == NumberedNames(DOMAIN fs0[cur])
            NameOfLine(i) == CHOOSE n \in group : manifest[i] = ExpectedLine(cur, n)
            NumberOfLine(i) == extract_number(PathJoin(cur, NameOfLine(i)))
        IN  /\ Len(manifest) = Cardinality(group)
            /\ \A i \in 1..Len(manifest) :
                  \E n \in group : manifest[i] = ExpectedLine(cur, n)
            /\ \A i, j \in 1..Len(manifest) :
                  i < j => /\ manifest[i] # manifest[j]
                           /\ NumberOfLine(i) <= NumberOfLine(j)

\* The manifest of the three files of "/r/T/b - 1" is handed to the tool:
\* number 1, then 2, then 10.
C12_Witness ==
    /\ pc = "concat_run"
    /\ cur = DirB
    /\ manifest = <<ExpectedLine(DirB, NameBegin1), ExpectedLine(DirB, NameEnd2),
                    ExpectedLine(DirB, NameEnd10)>>

(***************************************************************************)
(* C13.  Once the external tool has left a truncated destination for a     *)
(* directory's group, no step of this run or of any later run removes or   *)
(* rewrites that file, and no step invokes the concatenator for that       *)
(* directory again: every later run finds the destination and skips.       *)
(***************************************************************************)
\* The destination of directory d is a truncated file in tree t.
TruncatedIn(t, d) == HoldsDestination(t, d) /\ t[d][DestName(d)] = "truncated"

C13_TruncatedDestinationBlocksRemerge ==
    [][\A d \in Dirs \ {RootDir} :
          TruncatedIn(fs, d) => /\ TruncatedIn(fs', d)
                                /\ (d \in merges' => d \in merges)]_vars

\* The merge of "/r/T" failed in the first run leaving a truncated "T.mp3";
\* the second run completed, skipped the group, and the file is still there.
C13_Witness ==
    /\ run = 2
    /\ pc = "exit"
    /\ ending = "complete"
    /\ HoldsGroup(fs0, DirT)
    /\ TruncatedIn(fs0, DirT)
    /\ TruncatedIn(fs, DirT)
    /\ DirT \in skipped
    /\ DirT \notin merges

(***************************************************************************)
(* C14.  While the concatenator runs, its destination path is none of its  *)
(* source files, also in the directory "b - 1" whose destination           *)
(* "b - 1.mp3" matches the numbered-file pattern; and every source file    *)
(* still has its original content.                                         *)
(***************************************************************************)
C14_DestinationIsNoSource ==
    InConcatenator =>
        \A i \in 1..Len(sorted_files) :
            /\ sorted_files[i] # output_path
            /\ DirOf(sorted_files[i]) = cur
            /\ fs[cur][Basename(sorted_files[i])] = "original"

\* The group of "/r/T/b - 1" has been merged into "b - 1.mp3", a name the
\* detector would take for a numbered file.
C14_Witness ==
    /\ pc = "concat_unlink"
    /\ cur = DirB
    /\ returncode = 0
    /\ Len(sorted_files) > 1
    /\ output_path = PathJoin(DirB, DestName(DirB))
    /\ IsNumberedMp3(DestName(DirB))
    /\ fs[DirB][DestName(DirB)] = "merged"

=============================================================================
